---- MODULE Spec2Model ----
(***************************************************************************)
(* The build driver build.config.mjs: one process run is the pipeline      *)
(* clean -> build -> copy static files -> update version templates ->      *)
(* manipulate package.json -> done message.  The file system (project root *)
(* and the dist directory), the bundler's outcome, the platform and the    *)
(* mode are the environment; stdout, stderr and the exit status are what a *)
(* run shows.  Text is a sequence of one-character strings.                *)
(***************************************************************************)
EXTENDS Integers, Sequences, FiniteSets, TLC

VARIABLES
    platform,   \* os.platform(): "win32" or "posix"
    isProd,     \* NODE_ENV === 'production'
    fs,         \* the file system below the project root: [dirs, files]
    bundle,     \* what esbuild does with src/index.ts: [ok, js]
    pc,         \* the position of the running process in buildPackageConfig
    stdout,     \* the lines console.log printed in this process
    stderr,     \* the lines printed to the error stream in this process
    exitCode,   \* -1 while the process runs, then its exit status
    run,        \* the number of processes started so far
    hist        \* the sources this process started from, and the previous process

vars == <<platform, isProd, fs, bundle, pc, stdout, stderr, exitCode, run, hist>>

----------------------------------------------------------------------------
(* Bounds *)

MaxRuns == 2        \* processes started one after the other
MaxPieces == 2      \* pieces the bundled text is put together from

----------------------------------------------------------------------------
(* Text *)

Placeholder == <<"{", "{", "v", "e", "r", "s", "i", "o", "n", "}", "}">>

\* String.prototype.indexOf: the first position pat occurs at in s, 0 if none.
IndexOf(s, pat) ==
    LET hits == {i \in 1..(Len(s) - Len(pat) + 1) : SubSeq(s, i, i + Len(pat) - 1) = pat}
    IN  IF hits = {} THEN 0 ELSE CHOOSE i \in hits : \A j \in hits : i <= j

\* The number of positions pat occurs at in s.
Occurrences(s, pat) ==
    Cardinality({i \in 1..(Len(s) - Len(pat) + 1) : SubSeq(s, i, i + Len(pat) - 1) = pat})

\* The grave accent (U+0060) as an element of a text: the character cannot
\* be written inside a string of this language.
Grave == "U+0060"

Apostrophe == "'"

\* GetSubstitution of String.prototype.replace for a string pattern (no
\* captures): $$ is a dollar, $& the match, $ with a grave accent the text
\* before the match, $ with an apostrophe the text after it, and any other
\* $ stays as it is.
RECURSIVE GetSubstitution(_, _, _, _)
GetSubstitution(matched, str, position, replacement) ==
    IF replacement = <<>> THEN <<>>
    ELSE IF Head(replacement) # "$" \/ Len(replacement) = 1
    THEN <<Head(replacement)>> \o GetSubstitution(matched, str, position, Tail(replacement))
    ELSE LET c == replacement[2]
             rest == SubSeq(replacement, 3, Len(replacement))
         IN  CASE c = "$" -> <<"$">> \o GetSubstitution(matched, str, position, rest)
               [] c = "&" -> matched \o GetSubstitution(matched, str, position, rest)
               [] c = Grave -> SubSeq(str, 1, position - 1)
                               \o GetSubstitution(matched, str, position, rest)
               [] c = Apostrophe -> SubSeq(str, position + Len(matched), Len(str))
                               \o GetSubstitution(matched, str, position, rest)
               [] OTHER -> <<"$">> \o GetSubstitution(matched, str, position, Tail(replacement))

\* The first position at or after from that pat occurs at in s, 0 if none.
IndexFrom(s, pat, from) ==
    LET hits == {i \in from..(Len(s) - Len(pat) + 1) : SubSeq(s, i, i + Len(pat) - 1) = pat}
    IN  IF hits = {} THEN 0 ELSE CHOOSE i \in hits : \A j \in hits : i <= j

\* s from position from on, every occurrence of pat replaced by the
\* expansion of replacement at that occurrence.
RECURSIVE ReplaceFrom(_, _, _, _)
ReplaceFrom(s, pat, replacement, from) ==
    LET p == IndexFrom(s, pat, from)
    IN  IF p = 0 THEN SubSeq(s, from, Len(s))
        ELSE SubSeq(s, from, p - 1) \o GetSubstitution(pat, s, p, replacement)
               \o ReplaceFrom(s, pat, replacement, p + Len(pat))

\* A mutant of StringReplace: s.replaceAll(pat, replacement), every
\* occurrence replaced.
StringReplaceAll(s, pat, replacement) == ReplaceFrom(s, pat, replacement, 1)

\* s.replace(pat, replacement) with a string pattern: the first occurrence only.
StringReplace(s, pat, replacement) ==
    LET p == IndexOf(s, pat)
    IN  IF p = 0 THEN s
        ELSE SubSeq(s, 1, p - 1)
               \o GetSubstitution(pat, s, p, replacement)
               \o SubSeq(s, p + Len(pat), Len(s))

\* ToString of the destructured version: undefined when the key is missing.
VersionOf(doc) ==
    IF "version" \in DOMAIN doc THEN doc["version"]
    ELSE <<"u", "n", "d", "e", "f", "i", "n", "e", "d">>

----------------------------------------------------------------------------
(* The file system, relative to ROOT_PROJECT: a path is the tuple of its   *)
(* segments, fs.dirs the directories below the root and fs.files the files *)
(* with their contents.                                                    *)

outDirName == "dist"

\* path.resolve(ROOT_PROJECT, ...segments)
Resolve(segments) == segments

Under(p, dir) == Len(p) >= Len(dir) /\ SubSeq(p, 1, Len(dir)) = dir

IsFile(f, p) == p \in DOMAIN f.files

IsDir(f, p) == p \in f.dirs

\* Every directory p lies in, the root left out.
Parents(p) == {SubSeq(p, 1, n) : n \in 1..(Len(p) - 1)}

\* fs.writeFileSync(p, content) into an existing directory, cpSync and the
\* bundler's output: f with content at p (cpSync and the bundler make the
\* directories of p that are missing).
WriteFile(f, p, content) ==
    [dirs |-> f.dirs \cup Parents(p),
     files |-> [q \in (DOMAIN f.files) \cup {p} |-> IF q = p THEN content ELSE f.files[q]]]

\* f without the directory dir and all it holds.
RemoveTree(f, dir) ==
    [dirs |-> {d \in f.dirs : ~Under(d, dir)},
     files |-> [q \in {q \in DOMAIN f.files : ~Under(q, dir)} |-> f.files[q]]]

\* The files of f below dir, as a function of their paths.
Tree(f, dir) == [q \in {q \in DOMAIN f.files : Under(q, dir)} |-> f.files[q]]

\* The files of f outside dir.
Outside(f, dir) == [q \in {q \in DOMAIN f.files : ~Under(q, dir)} |-> f.files[q]]

\* JSON.parse(text) succeeds on a file that holds JSON text.
Parsable(content) == content.json

NoKeys == [k \in {} |-> ""]

\* The value of publishConfig: a plain object with its properties, an array
\* with its items (and the named properties it has in memory), a string, or null.
Obj(props) == [kind |-> "object", props |-> props, items |-> <<>>]

Arr(items) == [kind |-> "array", props |-> NoKeys, items |-> items]

Prim(kind) == [kind |-> kind, props |-> NoKeys, items |-> <<>>]

\* value.access = ... succeeds on objects and arrays; in a module (strict
\* mode) it throws a TypeError on a string and on null.
Assignable(value) == value.kind \in {"object", "array"}

\* JSON.stringify of a value: an array is written as its items alone, the
\* named properties it has are left out.
Serial(value) == IF value.kind = "array" THEN [value EXCEPT !.props = NoKeys] ELSE value

\* JSON.stringify(packageJson): the document, without the white space of the source.
Stringify(doc) ==
    [json |-> TRUE, ws |-> "compact",
     doc |-> [k \in DOMAIN doc |-> IF k = "publishConfig" THEN Serial(doc[k]) ELSE doc[k]]]

----------------------------------------------------------------------------
(* The process *)

Line(kind, arg) == [kind |-> kind, arg |-> arg]

Blank == Line("blank", "")

\* A mutant of Following: the call of build is not awaited.
FollowingUnawaited(step) ==
    CASE step = "clean" -> "build"
      [] step = "build" -> "copy"
      [] step = "awaitBuild" -> "copy"
      [] step = "copy" -> "version"
      [] step = "version" -> "manifest"
      [] step = "manifest" -> "report"
      [] step = "report" -> "exited"

\* buildPackageConfig: where control goes once step has run; build is left
\* at its await and goes on when esbuild has settled.
Following(step) ==
    CASE step = "clean" -> "build"
      [] step = "build" -> "awaitBuild"
      [] step = "awaitBuild" -> "copy"
      [] step = "copy" -> "version"
      [] step = "version" -> "manifest"
      [] step = "manifest" -> "report"
      [] step = "report" -> "exited"

\* A mutant of Uncaught: a catch at the top level prints the error, and the
\* process ends with status 0.
Caught(log, err) ==
    /\ pc' = "exited"
    /\ exitCode' = 0
    /\ stderr' = Append(log, err)

\* An error nobody catches: buildPackageConfig() rejects, node prints the
\* error after what the error stream holds (log) and the process ends with
\* status 1.
Uncaught(log, err) ==
    /\ pc' = "exited"
    /\ exitCode' = 1
    /\ stderr' = Append(log, err)

\* A mutant of DeleteStatus: rm -f, which cannot remove a directory.
DeleteStatusNotRecursive(plat, f, dir) ==
    IF plat = "win32"
    THEN (IF IsDir(f, dir) THEN 0 ELSE 2)
    ELSE (IF IsDir(f, dir) THEN 1 ELSE 0)

\* The exit status of the delete command: rd /s /q fails on a directory that
\* does not exist ("The system cannot find the file specified"), rm -rf does not.
DeleteStatus(plat, f, dir) ==
    IF plat = "win32"
    THEN (IF IsDir(f, dir) THEN 0 ELSE 2)
    ELSE 0

\* A mutant of DeleteEffect: nothing is removed.
DeleteKeeps(f, dir) == f

\* The file system after rm -rf dir, or rd /s /q dir.
DeleteEffect(f, dir) == RemoveTree(f, dir)

cleanTargetDirectory ==
    /\ pc = "clean"
    /\ IF DeleteStatus(platform, fs, <<outDirName>>) # 0
       THEN /\ stdout' = Append(stdout, Line("step", "1"))
            /\ Uncaught(stderr, "Command failed")
            /\ UNCHANGED fs
       ELSE /\ stdout' = stdout \o <<Line("step", "1"), Blank>>
            /\ fs' = DeleteEffect(fs, <<outDirName>>)
            /\ pc' = Following("clean")
            /\ UNCHANGED <<stderr, exitCode>>
    /\ UNCHANGED <<platform, isProd, bundle, run, hist>>

\* build, up to the awaited call of esbuild.
build ==
    /\ pc = "build"
    /\ stdout' = Append(stdout, Line("step", "2"))
    /\ pc' = Following("build")
    /\ UNCHANGED <<platform, isProd, fs, bundle, stderr, exitCode, run, hist>>

\* What esbuild writes: outfile, and its source map unless minifying for production.
Emit(f, prod, js) ==
    LET withJs == WriteFile(f, Resolve(<<outDirName, "index.js">>), js)
    IN  IF prod THEN withJs
        ELSE WriteFile(withJs, Resolve(<<outDirName, "index.js.map">>), "sourcemap")

\* esbuild settles: build resumes after the await, or the rejection leaves it.
buildSettled ==
    /\ pc = "awaitBuild"
    /\ IF bundle.ok
       THEN /\ fs' = Emit(fs, isProd, bundle.js)
            /\ stdout' = Append(stdout, Blank)
            /\ pc' = Following("awaitBuild")
            /\ UNCHANGED <<stderr, exitCode>>
       ELSE /\ Uncaught(stderr, "Build failed")
            /\ UNCHANGED <<fs, stdout>>
    /\ UNCHANGED <<platform, isProd, bundle, run, hist>>

filesToCopyArr ==
    << [filename |-> "package.json", isAllowedToFail |-> FALSE],
       [filename |-> "README.md", isAllowedToFail |-> FALSE],
       [filename |-> ".npmrc", isAllowedToFail |-> TRUE],
       [filename |-> ".npmignore", isAllowedToFail |-> TRUE] >>

\* A mutant of Recovers: every failed copy is skipped.
RecoversAlways(record) == TRUE

\* The catch block of the copy: a failure of this record's copy is skipped.
Recovers(record) == record.isAllowedToFail

\* The forEach of copyStaticFiles from record i on; acc is what the records
\* before i left: the file system, the lines printed, and whether one threw
\* (the catch block then prints the error of cpSync and throws its own).
RECURSIVE CopyLoop(_, _)
CopyLoop(i, acc) ==
    IF i > Len(filesToCopyArr) THEN acc
    ELSE LET record == filesToCopyArr[i]
             source == Resolve(<<record.filename>>)
             destination == Resolve(<<outDirName, record.filename>>)
         IN  IF IsFile(acc.fs, source)
             THEN CopyLoop(i + 1,
                      [acc EXCEPT !.fs = WriteFile(@, destination, acc.fs.files[source]),
                                  !.out = Append(@, Line("bullet", record.filename))])
             ELSE IF Recovers(record)
             THEN CopyLoop(i + 1, acc)
             ELSE [acc EXCEPT !.thrown = TRUE]

copyStaticFiles ==
    /\ pc = "copy"
    /\ LET r == CopyLoop(1, [fs |-> fs, out |-> Append(stdout, Line("step", "3")),
                             thrown |-> FALSE])
       IN  /\ fs' = r.fs
           /\ IF r.thrown
              THEN /\ stdout' = r.out
                   /\ Uncaught(Append(stderr, "ENOENT"),
                               "File MUST exists in order to PASS build process!")
              ELSE /\ stdout' = Append(r.out, Blank)
                   /\ pc' = Following("copy")
                   /\ UNCHANGED <<stderr, exitCode>>
    /\ UNCHANGED <<platform, isProd, bundle, run, hist>>

updateVersionTemplates ==
    /\ pc = "version"
    /\ LET manifest == Resolve(<<"package.json">>)
           showVersionFuncPath == Resolve(<<outDirName, "index.js">>)
       IN  IF ~IsFile(fs, manifest)
           THEN Uncaught(stderr, "ENOENT: package.json") /\ stdout' = Append(stdout, Line("step", "4"))
                /\ UNCHANGED fs
           ELSE IF ~Parsable(fs.files[manifest])
           THEN Uncaught(stderr, "SyntaxError") /\ stdout' = Append(stdout, Line("step", "4"))
                /\ UNCHANGED fs
           ELSE IF ~IsFile(fs, showVersionFuncPath)
           THEN Uncaught(stderr, "ENOENT: index.js") /\ stdout' = Append(stdout, Line("step", "4"))
                /\ UNCHANGED fs
           ELSE /\ fs' = WriteFile(fs, showVersionFuncPath,
                             StringReplace(fs.files[showVersionFuncPath], Placeholder,
                                           VersionOf(fs.files[manifest].doc)))
                /\ stdout' = stdout \o <<Line("step", "4"), Blank>>
                /\ pc' = Following("version")
                /\ UNCHANGED <<stderr, exitCode>>
    /\ UNCHANGED <<platform, isProd, bundle, run, hist>>

\* The three deletes and the assignment of manipulatePackageJsonFile, on a
\* document whose publishConfig takes the assignment: packageJson in memory.
Sanitize(doc) ==
    [k \in (DOMAIN doc) \ {"private", "scripts", "devDependencies"} |->
        IF k = "publishConfig"
        THEN [doc[k] EXCEPT !.props = [a \in (DOMAIN @) \cup {"access"} |->
                                          IF a = "access" THEN "public" ELSE @[a]]]
        ELSE doc[k]]

\* A mutant of PackageJsonPath: the manifest of the project root.
PackageJsonPathOfRoot == Resolve(<<"package.json">>)

PackageJsonPath == Resolve(<<outDirName, "package.json">>)

manipulatePackageJsonFile ==
    /\ pc = "manifest"
    /\ IF ~IsFile(fs, PackageJsonPath)
       THEN Uncaught(stderr, "ENOENT: package.json") /\ stdout' = Append(stdout, Line("step", "5"))
            /\ UNCHANGED fs
       ELSE IF ~Parsable(fs.files[PackageJsonPath])
       THEN Uncaught(stderr, "SyntaxError") /\ stdout' = Append(stdout, Line("step", "5"))
            /\ UNCHANGED fs
       ELSE IF \/ "publishConfig" \notin DOMAIN fs.files[PackageJsonPath].doc
               \/ ~Assignable(fs.files[PackageJsonPath].doc["publishConfig"])
       THEN Uncaught(stderr, "TypeError") /\ stdout' = Append(stdout, Line("step", "5"))
            /\ UNCHANGED fs
       ELSE /\ fs' = WriteFile(fs, PackageJsonPath,
                               Stringify(Sanitize(fs.files[PackageJsonPath].doc)))
            /\ stdout' = stdout \o <<Line("step", "5"),
                                      Line("bullet", "deleted private"),
                                      Line("bullet", "deleted scripts"),
                                      Line("bullet", "deleted devDependencies"),
                                      Line("bullet", "changed publishConfig access"),
                                      Line("written", "package.json"), Blank>>
            /\ pc' = Following("manifest")
            /\ UNCHANGED <<stderr, exitCode>>
    /\ UNCHANGED <<platform, isProd, bundle, run, hist>>

\* printDoneMessage, and the end of the process once the promise is fulfilled.
printDoneMessage ==
    /\ pc = "report"
    /\ stdout' = Append(stdout, Line("done", ""))
    /\ pc' = Following("report")
    /\ exitCode' = 0
    /\ UNCHANGED <<platform, isProd, fs, bundle, stderr, run, hist>>

----------------------------------------------------------------------------
(* The environment a process starts in *)

Versions ==
    { <<"2", ".", "3", ".", "1">>, <<"$", "&">>, <<"$", "$">>, <<"$", Grave>>,
      <<"$", Apostrophe>>, <<"$", "1">>, Placeholder }

Pieces == { <<"a">>, <<"{">>, Placeholder }

RECURSIVE Flatten(_)
Flatten(ps) == IF ps = <<>> THEN <<>> ELSE Head(ps) \o Flatten(Tail(ps))

\* The texts esbuild may emit: up to MaxPieces pieces, one after the other.
Texts == {Flatten(ps) : ps \in UNION {[1..n -> Pieces] : n \in 0..MaxPieces}}

DefaultText == <<"a">> \o Placeholder

DefaultVersion == <<"2", ".", "3", ".", "1">>

Restricted == Obj([a \in {"access"} |-> "restricted"])

PublishConfigs ==
    { Restricted,
      Obj([a \in {"access", "registry"} |-> IF a = "access" THEN "public" ELSE "https://r"]),
      Obj(NoKeys),
      Arr(<<>>), Arr(<<"x">>),
      Prim("string"), Prim("null") }

\* A manifest: name and main, a version unless v is empty, the development
\* keys of dev, and the publishConfig of pcs (none when pcs is empty).
Doc(v, dev, pcs) ==
    [k \in {"name", "main"} \cup dev
            \cup (IF v = <<>> THEN {} ELSE {"version"})
            \cup (IF pcs = {} THEN {} ELSE {"publishConfig"}) |->
        CASE k = "version" -> v
          [] k = "publishConfig" -> (CHOOSE c \in pcs : TRUE)
          [] k = "private" -> "true"
          [] OTHER -> k]

Json(doc) == [json |-> TRUE, ws |-> "pretty", doc |-> doc]

Garbage == [json |-> FALSE, ws |-> "pretty", doc |-> NoKeys]

DevKeys == {"private", "scripts", "devDependencies"}

DefaultDoc == Doc(DefaultVersion, DevKeys, {Restricted})

\* package.json (a sequence: empty when the file is missing) and the bundler's outcome.
ContentCases ==
    {[pkg |-> <<Json(Doc(v, DevKeys, {Restricted}))>>,
      bundle |-> [ok |-> TRUE, js |-> t]] : v \in Versions, t \in Texts}
    \cup {[pkg |-> <<Json(Doc(DefaultVersion, dev, {c}))>>,
           bundle |-> [ok |-> TRUE, js |-> DefaultText]] : dev \in SUBSET DevKeys, c \in PublishConfigs}
    \cup {[pkg |-> <<Json(Doc(v, dev, {}))>>,
           bundle |-> [ok |-> TRUE, js |-> DefaultText]] :
              v \in {<<>>, DefaultVersion}, dev \in {{}, DevKeys}}
    \cup {[pkg |-> f, bundle |-> [ok |-> TRUE, js |-> DefaultText]] : f \in {<<>>, <<Garbage>>}}
    \cup {[pkg |-> <<Json(DefaultDoc)>>, bundle |-> [ok |-> FALSE, js |-> <<>>]]}

\* The other static files that exist, the platform, the mode, and whether an
\* earlier build left an output directory.
EnvCases ==
    [static : SUBSET {"README.md", ".npmrc", ".npmignore"},
     platform : {"win32", "posix"}, isProd : BOOLEAN, stale : BOOLEAN]

StaleFiles ==
    [q \in {<<outDirName, "index.js">>, <<outDirName, ".npmrc">>, <<outDirName, "old.js">>} |->
        IF q[2] = "index.js" THEN <<"o">> ELSE "old"]

SourceTree(c, e) ==
    [q \in {<<f>> : f \in e.static} \cup {<<"package.json">> : i \in 1..Len(c.pkg)} |->
        IF q = <<"package.json">> THEN c.pkg[1] ELSE q[1]]

Init ==
    \E c \in ContentCases, e \in EnvCases :
        /\ platform = e.platform
        /\ isProd = e.isProd
        /\ bundle = c.bundle
        /\ fs = [dirs |-> IF e.stale THEN {<<outDirName>>} ELSE {},
                 files |-> IF e.stale THEN SourceTree(c, e) @@ StaleFiles
                           ELSE SourceTree(c, e)]
        /\ pc = "idle"
        /\ stdout = <<>>
        /\ stderr = <<>>
        /\ exitCode = -1
        /\ run = 0
        /\ hist = [src0 |-> Outside(fs, <<outDirName>>), psrc |-> Outside(fs, <<outDirName>>),
                   ptree |-> Tree(fs, <<outDirName>>), pexit |-> -1]

\* node build.config.mjs: a new process calls buildPackageConfig.
start ==
    /\ pc \in {"idle", "exited"}
    /\ run < MaxRuns
    /\ run' = run + 1
    /\ pc' = "clean"
    /\ stdout' = <<>>
    /\ stderr' = <<>>
    /\ exitCode' = -1
    /\ hist' = [src0 |-> Outside(fs, <<outDirName>>), psrc |-> hist.src0,
                ptree |-> Tree(fs, <<outDirName>>), pexit |-> exitCode]
    /\ UNCHANGED <<platform, isProd, fs, bundle>>

\* Between two processes the developer adds or removes an optional static file.
editSource ==
    /\ pc \in {"idle", "exited"}
    /\ run >= 1
    /\ run < MaxRuns
    /\ \E f \in {".npmrc", ".npmignore"} :
          fs' = IF IsFile(fs, <<f>>)
                THEN [fs EXCEPT !.files = [q \in (DOMAIN fs.files) \ {<<f>>} |-> fs.files[q]]]
                ELSE WriteFile(fs, <<f>>, f)
    /\ pc' = "idle"
    /\ UNCHANGED <<platform, isProd, bundle, stdout, stderr, exitCode, run, hist>>

Next ==
    \/ start
    \/ cleanTargetDirectory
    \/ build
    \/ buildSettled
    \/ copyStaticFiles
    \/ updateVersionTemplates
    \/ manipulatePackageJsonFile
    \/ printDoneMessage
    \/ editSource

Spec == Init /\ [][Next]_vars

----------------------------------------------------------------------------
(* What a state shows *)

Src == Outside(fs, <<outDirName>>)

Running == pc \notin {"idle"} /\ run >= 1

Exited == pc = "exited" /\ run >= 1

Succeeded == Exited /\ exitCode = 0

Printed(line) == \E i \in 1..Len(stdout) : stdout[i] = line

\* The step headers, step ends and done message among the lines of out.
RECURSIVE Markers(_)
Markers(out) ==
    IF out = <<>> THEN <<>>
    ELSE IF Head(out).kind \in {"step", "blank", "done"}
    THEN <<Head(out)>> \o Markers(Tail(out))
    ELSE Markers(Tail(out))

Canonical ==
    << Line("step", "1"), Blank, Line("step", "2"), Blank, Line("step", "3"), Blank,
       Line("step", "4"), Blank, Line("step", "5"), Blank, Line("done", "") >>

IsPrefix(a, b) == Len(a) <= Len(b) /\ SubSeq(b, 1, Len(a)) = a

Blanks == Cardinality({i \in 1..Len(stdout) : stdout[i] = Blank})

\* Step n has printed the empty line it ends with.
Completed(n) == Blanks >= n

Artifact == fs.files[<<outDirName, "index.js">>]

DistManifest == fs.files[<<outDirName, "package.json">>]

SrcHas(f) == <<f>> \in DOMAIN hist.src0

SrcManifest == hist.src0[<<"package.json">>]

SrcVersion == VersionOf(SrcManifest.doc)

ValidManifest ==
    /\ SrcHas("package.json")
    /\ SrcManifest.json
    /\ "publishConfig" \in DOMAIN SrcManifest.doc
    /\ Assignable(SrcManifest.doc["publishConfig"])

----------------------------------------------------------------------------
(* C1 *)

\* C1, as stated: whenever a run completes successfully, the manifest in the
\* output directory has no private, scripts or devDependencies key and its
\* publishConfig.access is "public", whatever the source manifest held.
C1_SanitizedManifest ==
    Succeeded =>
        /\ IsFile(fs, <<outDirName, "package.json">>)
        /\ DistManifest.json
        /\ DOMAIN DistManifest.doc \cap {"private", "scripts", "devDependencies"} = {}
        /\ "publishConfig" \in DOMAIN DistManifest.doc
        /\ "access" \in DOMAIN DistManifest.doc["publishConfig"].props
        /\ DistManifest.doc["publishConfig"].props["access"] = "public"

\* What does hold: the three keys are gone after every successful run, and
\* access is "public" when the publishConfig of the source is a plain object.
C1_SanitizedWhenObject ==
    Succeeded =>
        /\ IsFile(fs, <<outDirName, "package.json">>)
        /\ DistManifest.json
        /\ DOMAIN DistManifest.doc \cap {"private", "scripts", "devDependencies"} = {}
        /\ "publishConfig" \in DOMAIN DistManifest.doc
        /\ SrcManifest.doc["publishConfig"].kind = "object" =>
              /\ "access" \in DOMAIN DistManifest.doc["publishConfig"].props
              /\ DistManifest.doc["publishConfig"].props["access"] = "public"
        /\ SrcManifest.doc["publishConfig"].kind = "array" =>
              DistManifest.doc["publishConfig"] = SrcManifest.doc["publishConfig"]

C1_Witness ==
    /\ Succeeded
    /\ DevKeys \subseteq DOMAIN SrcManifest.doc
    /\ SrcManifest.doc["publishConfig"] = Restricted

C1_ArrayReached ==
    /\ Succeeded
    /\ SrcManifest.doc["publishConfig"].kind = "array"

----------------------------------------------------------------------------
(* C2, C3: the version update.  The artifact the step reads is the text    *)
(* esbuild wrote, bundle.js: no step between the two writes index.js.      *)

VersionDone == Running /\ Completed(4)

FirstAt == IndexOf(bundle.js, Placeholder)

Before == SubSeq(bundle.js, 1, FirstAt - 1)

After == SubSeq(bundle.js, FirstAt + Len(Placeholder), Len(bundle.js))

DollarFree(v) == \A i \in 1..Len(v) : v[i] # "$"

\* C2, as stated, for an artifact that holds {{version}} and a version that
\* has no '$' and no {{version}} in it: after the version update the
\* artifact holds no {{version}}, also when it held the token more than once.
C2_Original ==
    (VersionDone /\ FirstAt # 0 /\ DollarFree(SrcVersion)
        /\ Occurrences(SrcVersion, Placeholder) = 0)
    => Occurrences(Artifact, Placeholder) = 0

\* C2, amended: one substitution occurs when the artifact holds {{version}}
\* and none when it does not; it is the first occurrence that is replaced,
\* the text before and after it stays, so that of n occurrences at least
\* n - 1 are left.
C2_FirstOccurrenceOnly ==
    VersionDone =>
        /\ FirstAt = 0 => Artifact = bundle.js
        /\ FirstAt # 0 =>
              /\ Len(Artifact) >= Len(Before) + Len(After)
              /\ SubSeq(Artifact, 1, Len(Before)) = Before
              /\ SubSeq(Artifact, Len(Artifact) - Len(After) + 1, Len(Artifact)) = After
              /\ Occurrences(Artifact, Placeholder) >= Occurrences(bundle.js, Placeholder) - 1

C2_Witness ==
    /\ VersionDone
    /\ Occurrences(bundle.js, Placeholder) = 2
    /\ Occurrences(Artifact, Placeholder) = 1
    /\ SrcVersion = DefaultVersion

\* C3, as stated: whatever the version string of the source manifest, also
\* one with a '$' in it, the first {{version}} of the artifact is replaced by
\* exactly that string and every other character is unchanged.
C3_Verbatim ==
    (VersionDone /\ FirstAt # 0) => Artifact = Before \o SrcVersion \o After

\* What does hold: a version without '$' is written verbatim.
C3_VerbatimWithoutDollar ==
    (VersionDone /\ FirstAt # 0 /\ DollarFree(SrcVersion))
        => Artifact = Before \o SrcVersion \o After

C3_Reached ==
    /\ VersionDone
    /\ FirstAt # 0
    /\ SrcVersion = DefaultVersion
    /\ Artifact = Before \o DefaultVersion \o After

----------------------------------------------------------------------------
(* C4, C5: the static files *)

\* The records of filesToCopyArr before the first required file that the
\* sources of this process lack are 1..(FirstMissing - 1); 0 when none lacks.
MissingRequired ==
    {i \in 1..Len(filesToCopyArr) :
        ~filesToCopyArr[i].isAllowedToFail /\ ~SrcHas(filesToCopyArr[i].filename)}

FirstMissing ==
    IF MissingRequired = {} THEN 0
    ELSE CHOOSE i \in MissingRequired : \A j \in MissingRequired : i <= j

StartedStep(n) == Printed(Line("step", n))

\* C4: when package.json or README.md is missing from the project root, the
\* manifest step never runs, a run that reaches copyStaticFiles ends inside
\* it, no file listed after the missing one is copied, and the process ends
\* with a status other than 0.
C4_RequiredFileAborts ==
    (Running /\ FirstMissing # 0) =>
        /\ pc \notin {"version", "manifest", "report"}
        /\ ~StartedStep("4") /\ ~StartedStep("5") /\ ~Printed(Line("done", ""))
        /\ ~Completed(3)
        /\ \A j \in FirstMissing..Len(filesToCopyArr) :
              /\ ~IsFile(fs, <<outDirName, filesToCopyArr[j].filename>>) \/ pc = "clean"
              /\ ~Printed(Line("bullet", filesToCopyArr[j].filename))
        /\ Exited => exitCode # 0
        /\ (Exited /\ StartedStep("3")) =>
              /\ stdout[Len(stdout)] # Blank
              /\ stderr = <<"ENOENT", "File MUST exists in order to PASS build process!">>

C4_Witness ==
    /\ Exited
    /\ FirstMissing = 2
    /\ SrcHas(".npmrc")
    /\ StartedStep("3")
    /\ IsFile(fs, <<outDirName, "package.json">>)
    /\ exitCode = 1

OtherInputsValid == ValidManifest /\ SrcHas("README.md")

\* C5: when .npmrc or .npmignore is missing from the sources and the other
\* inputs are valid, the copy skips it and every remaining step runs to
\* completion: the process ends with status 0 and the output directory does
\* not hold that file, even when an earlier run had put one there.
C5_OptionalFileSkipped ==
    \A i \in 1..Len(filesToCopyArr) :
        (/\ Exited
         /\ StartedStep("3")
         /\ filesToCopyArr[i].isAllowedToFail
         /\ ~SrcHas(filesToCopyArr[i].filename)
         /\ OtherInputsValid)
        => /\ exitCode = 0
           /\ stderr = <<>>
           /\ Markers(stdout) = Canonical
           /\ ~IsFile(fs, <<outDirName, filesToCopyArr[i].filename>>)

C5_Witness ==
    /\ Succeeded
    /\ ~SrcHas(".npmrc")
    /\ <<outDirName, ".npmrc">> \in DOMAIN hist.ptree
    /\ ~IsFile(fs, <<outDirName, ".npmrc">>)
    /\ IsFile(fs, <<outDirName, "README.md">>)

----------------------------------------------------------------------------
(* C6 *)

\* C6: a process that starts from the same sources as the one before it ends
\* with the same files of the same contents in the output directory, and
\* with the same exit status: nothing the first run wrote changes the
\* result of the second.
C6_Idempotent ==
    (Exited /\ run >= 2 /\ hist.psrc = hist.src0) =>
        /\ Tree(fs, <<outDirName>>) = hist.ptree
        /\ exitCode = hist.pexit

C6_Witness ==
    /\ Succeeded
    /\ run >= 2
    /\ hist.psrc = hist.src0
    /\ hist.pexit = 0
    /\ FirstAt # 0
    /\ IsFile(fs, <<outDirName, "package.json">>)
    /\ DistManifest.ws = "compact"
    /\ Tree(fs, <<outDirName>>) = hist.ptree

----------------------------------------------------------------------------
(* C7 *)

\* C7: the steps run in the order clean, build, copy, version update,
\* manifest, report, each at most once and each only after the one before it
\* has completed (the awaited bundler call included): what a process has
\* printed of step headers, step ends and the done message is a prefix of
\* the one canonical sequence, and the step it is in is the one that follows.
C7_StrictOrder ==
    Running =>
        /\ IsPrefix(Markers(stdout), Canonical)
        /\ pc = "clean" => Markers(stdout) = <<>>
        /\ pc = "build" => Markers(stdout) = SubSeq(Canonical, 1, 2)
        /\ pc = "awaitBuild" => Markers(stdout) = SubSeq(Canonical, 1, 3)
        /\ pc = "copy" => Markers(stdout) = SubSeq(Canonical, 1, 4)
        /\ pc = "version" =>
              Markers(stdout) = SubSeq(Canonical, 1, 6) /\ IsFile(fs, <<outDirName, "index.js">>)
        /\ pc = "manifest" =>
              Markers(stdout) = SubSeq(Canonical, 1, 8)
              /\ IsFile(fs, <<outDirName, "package.json">>)
        /\ pc = "report" => Markers(stdout) = SubSeq(Canonical, 1, 10)

C7_Witness ==
    /\ Succeeded
    /\ Markers(stdout) = Canonical

----------------------------------------------------------------------------
(* C8 *)

CleanDone == Running /\ pc # "clean"

\* C8, as stated: cleanTargetDirectory removes the output directory when it
\* exists and succeeds as a no-op when it does not, on both platforms: once
\* it has run, step 1 has ended without an error and the pipeline is past it.
C8_CleanSucceedsOnBothPlatforms ==
    CleanDone =>
        /\ Completed(1)
        /\ (pc = "build" => ~IsDir(fs, <<outDirName>>) /\ Tree(fs, <<outDirName>>) = NoKeys)
        /\ (StartedStep("1") /\ ~StartedStep("2") /\ Exited) => FALSE

\* What does hold: with rm -rf the step always succeeds, with rd /s /q it
\* succeeds exactly when the directory existed; after a success the
\* directory and all it held are gone.
C8_CleanOnPosixOrExistingDir ==
    /\ (CleanDone /\ platform = "posix") => Completed(1)
    /\ (CleanDone /\ <<outDirName>> \in {SubSeq(q, 1, 1) : q \in DOMAIN hist.ptree})
          => Completed(1)
    /\ pc = "build" => ~IsDir(fs, <<outDirName>>) /\ Tree(fs, <<outDirName>>) = NoKeys

----------------------------------------------------------------------------
(* C9 *)

\* The step a failed process was in: the last step header it printed.
LastStep ==
    LET at == {i \in 1..Len(stdout) : stdout[i].kind = "step"}
    IN  IF at = {} THEN 0 ELSE CHOOSE i \in at : \A j \in at : j <= i

\* An error is fatal: a process that has printed an error has ended, with a
\* status other than 0, inside the step whose header it printed last, with no
\* done message; what the steps before wrote is still there; and status 0
\* goes with the complete output and no error.
Fatal ==
    /\ Running /\ stderr # <<>> =>
          /\ pc = "exited"
          /\ exitCode # 0
    /\ (Exited /\ exitCode # 0) =>
          /\ stderr # <<>>
          /\ ~Printed(Line("done", ""))
          /\ LastStep # 0
          /\ \A i \in LastStep..Len(stdout) : stdout[i] # Blank
          /\ IsPrefix(Markers(stdout), Canonical)
          /\ StartedStep("3") => IsFile(fs, <<outDirName, "index.js">>)
          /\ StartedStep("5") => Artifact = StringReplace(bundle.js, Placeholder, SrcVersion)
    /\ Succeeded => stderr = <<>> /\ Markers(stdout) = Canonical

\* The optional files this process found missing when it copied.
Skipped ==
    {i \in 1..Len(filesToCopyArr) :
        /\ filesToCopyArr[i].isAllowedToFail
        /\ ~SrcHas(filesToCopyArr[i].filename)
        /\ Running /\ Completed(3)}

Mentions(f) ==
    \/ \E i \in 1..Len(stdout) : stdout[i].arg = f
    \/ stderr # <<>>

\* C9, as stated: every error is fatal, but for the failed copy of a file
\* marked isAllowedToFail, which degrades to a logged skip.
C9_Original ==
    /\ Fatal
    /\ \A i \in Skipped : Mentions(filesToCopyArr[i].filename)

\* What does hold: every error is fatal, but for the failed copy of a file
\* marked isAllowedToFail, which is skipped without a word: nothing is
\* printed for the file and the copy goes on with the next record.
C9_FatalButSilentSkip ==
    /\ Fatal
    /\ \A i \in Skipped :
          /\ \A j \in 1..Len(stdout) : stdout[j].arg # filesToCopyArr[i].filename
          /\ \A k \in (i + 1)..Len(filesToCopyArr) :
                SrcHas(filesToCopyArr[k].filename)
                    => Printed(Line("bullet", filesToCopyArr[k].filename))

C9_Witness ==
    /\ Exited
    /\ exitCode = 1
    /\ stderr = <<"SyntaxError">>
    /\ ~SrcHas(".npmrc")
    /\ SrcHas(".npmignore")
    /\ Printed(Line("bullet", ".npmignore"))
    /\ IsFile(fs, <<outDirName, "README.md">>)

----------------------------------------------------------------------------
(* C10 *)

ManifestDone == Running /\ Printed(Line("written", "package.json"))

\* C10: the files outside the output directory are inputs only: in every
\* state of a process they are what they were when it started.  The manifest
\* step rewrites the copy in the output directory, whose keys other than
\* private, scripts, devDependencies and publishConfig.access keep the values
\* of the source manifest.
C10_SourceReadOnly ==
    /\ Running => Src = hist.src0
    /\ (Running /\ Completed(3) /\ ~ManifestDone) => DistManifest = SrcManifest
    /\ ManifestDone =>
          /\ DOMAIN DistManifest.doc = (DOMAIN SrcManifest.doc) \ DevKeys
          /\ \A k \in (DOMAIN DistManifest.doc) \ {"publishConfig"} :
                DistManifest.doc[k] = SrcManifest.doc[k]
          /\ DistManifest.doc["publishConfig"].kind = SrcManifest.doc["publishConfig"].kind
          /\ DistManifest.doc["publishConfig"].items = SrcManifest.doc["publishConfig"].items
          /\ SrcManifest.doc["publishConfig"].kind = "object" =>
                DOMAIN DistManifest.doc["publishConfig"].props
                    = (DOMAIN SrcManifest.doc["publishConfig"].props) \cup {"access"}
          /\ (DOMAIN DistManifest.doc["publishConfig"].props) \ {"access"}
                = (DOMAIN SrcManifest.doc["publishConfig"].props) \ {"access"}
          /\ \A a \in (DOMAIN SrcManifest.doc["publishConfig"].props) \ {"access"} :
                DistManifest.doc["publishConfig"].props[a]
                    = SrcManifest.doc["publishConfig"].props[a]

C10_Witness ==
    /\ Succeeded
    /\ DevKeys \subseteq DOMAIN SrcManifest.doc
    /\ "registry" \in DOMAIN SrcManifest.doc["publishConfig"].props
    /\ SrcManifest.ws = "pretty"
    /\ DistManifest.ws = "compact"
    /\ DistManifest.doc["publishConfig"].props["registry"] = "https://r"

====
